---- MODULE Spec2Model ----
(***************************************************************************)
(* Model of mtghc.py: the paginated repository search (fetch_repos), and   *)
(* the worker pool of main running process_repo tasks that clone, walk,    *)
(* scan and record findings under the shared file_counter.                 *)
(***************************************************************************)
EXTENDS Integers, Sequences, FiniteSets, TLC

(***************************************************************************)
(* Bounds of the model.                                                    *)
(***************************************************************************)
\* pages of the search backend that may hold items; later pages are empty
NumPages == 3
\* items on one page of the backend (stands for per_page = 100)
MaxPerPage == 2
\* largest max_repos argument tried
MaxM == 4
\* 403 responses the backend gives in one fetch_repos call
MaxThrottle == 2
\* repositories handed to the worker pool
NumRepos == 3
\* largest max_workers tried
MaxWorkers == 2
\* largest whitespace threshold tried
MaxLimit == 2
\* failures the environment injects in one run (clone, read, write, ...)
MaxFaults == 1
\* repositories of the runs checked for termination
LiveRepos == 2
\* characters of a text handed to analyze_code_content on its own
MaxContent == 5

VARIABLES
    \* ---- fetch_repos ----
    max_repos,      \* argument of fetch_repos
    pageSize,       \* backend: number of items on each page
    fpc,            \* position inside fetch_repos
    repos,          \* local list repos
    page,           \* local page cursor
    throttles,      \* 403 responses given so far
    reqlog,         \* history: requests, responses and sleeps, in order
    \* ---- main and the worker pool ----
    USE_SPARSE_CHECKOUT,
    limit,
    max_workers,
    mpc,            \* position inside main
    queue,          \* work items submitted and not yet taken by a worker
    collected,      \* futures whose result() main has taken
    tasks,          \* per process_repo call: position and locals
    \* ---- shared by the workers ----
    tmpfs,          \* the temporary directories, by name
    Detected,       \* the directory Detected exists
    evidence,       \* the files detected_<id>.txt in Detected
    file_counter,
    file_counter_lock,  \* 0 when free, else the task holding it
    claims,         \* history: <<task, id>> in the order the ids were read
    faults,         \* failures injected so far
    \* ---- analyze_code_content on its own ----
    scan_content,   \* argument content (limit is the other argument)
    scan_lines,     \* local code_lines
    scan_results,   \* local results
    spc             \* position inside analyze_code_content

fvars == <<max_repos, pageSize, fpc, repos, page, throttles, reqlog>>

cvars == <<USE_SPARSE_CHECKOUT, limit, max_workers>>

pvars == <<mpc, queue, collected, tasks, tmpfs, Detected, evidence,
           file_counter, file_counter_lock, claims, faults>>

svars == <<scan_content, scan_lines, scan_results, spc>>

vars == <<fvars, cvars, pvars, svars>>

(***************************************************************************)
(* Helpers.                                                                *)
(***************************************************************************)
Min(a, b) == IF a < b THEN a ELSE b

(***************************************************************************)
(* The search backend.  Page p holds pageSize[p] items; an item is named   *)
(* by its page and its index on the page, so all items are distinct.       *)
(***************************************************************************)
Items(ps, p) == IF p \in DOMAIN ps THEN [i \in 1..ps[p] |-> <<p, i>>] ELSE <<>>

(***************************************************************************)
(* fetch_repos (src/mtghc.py:32-59).  The backend answers every request,   *)
(* with a 200, a 403 or another status (500 stands for all of those).      *)
(***************************************************************************)
\* line 36: the loop condition
LoopCond(r, m) == Len(r) < m

\* lines 48-49: cut the list back to max_repos when the last page overshoots
TruncateNone(r, m) == r

Truncate(r, m) == IF Len(r) > m THEN SubSeq(r, 1, m) ELSE r

\* line 46: repos.extend(new_repos)
Extend(r, new) == r \o new

\* the cursor moved past a page that was never requested
NextPageSkip(p) == p + 2

\* line 47: page += 1 after a non-empty page
NextPage(p) == p + 1

\* lines 50-54: the page cursor after a 403 (continue: unchanged)
PageAfter403Skip(p) == p + 1

PageAfter403(p) == p

\* lines 53-54: after a 403 the call sleeps before the loop continues
PcAfter403NoSleep == "loop"

\* a retry ceiling: the second 403 of a call ends it
PcAfter403GiveUp == IF throttles >= 1 THEN "done" ELSE "sleep"

PcAfter403 == "sleep"

\* lines 55-57: what is left of repos after an error status (break: unchanged)
ReposAfterErrorDropped(r) == <<>>

ReposAfterError(r) == r

\* lines 55-57: where control goes after an error status (break)
PcAfterError == "done"

\* lines 36-39: test the loop condition; issue the request or leave the loop
FetchLoop ==
    /\ fpc = "loop"
    /\ IF LoopCond(repos, max_repos)
       THEN /\ fpc' = "await"
            /\ reqlog' = Append(reqlog, <<"req", page>>)
       ELSE /\ fpc' = "done"
            /\ UNCHANGED reqlog
    /\ UNCHANGED <<max_repos, pageSize, repos, page, throttles, cvars, pvars, svars>>

\* lines 40-49: a 200 response with the items of the page requested
Fetch200 ==
    /\ fpc = "await"
    /\ LET new_repos == Items(pageSize, page) IN
       /\ reqlog' = Append(reqlog, <<"resp", 200>>)
       /\ IF new_repos = <<>>
          THEN /\ fpc' = "done"
               /\ UNCHANGED <<repos, page>>
          ELSE /\ repos' = Truncate(Extend(repos, new_repos), max_repos)
               /\ page' = NextPage(page)
               /\ fpc' = "loop"
    /\ UNCHANGED <<max_repos, pageSize, throttles, cvars, pvars, svars>>

\* lines 50-52: a 403 response
Fetch403 ==
    /\ fpc = "await"
    /\ throttles < MaxThrottle
    /\ throttles' = throttles + 1
    /\ reqlog' = Append(reqlog, <<"resp", 403>>)
    /\ page' = PageAfter403(page)
    /\ fpc' = PcAfter403
    /\ UNCHANGED <<max_repos, pageSize, repos, cvars, pvars, svars>>

\* lines 53-54: time.sleep(30); continue
FetchSleep ==
    /\ fpc = "sleep"
    /\ reqlog' = Append(reqlog, <<"sleep", 30>>)
    /\ fpc' = "loop"
    /\ UNCHANGED <<max_repos, pageSize, repos, page, throttles, cvars, pvars, svars>>

\* lines 55-57: any other status
FetchError ==
    /\ fpc = "await"
    /\ reqlog' = Append(reqlog, <<"resp", 500>>)
    /\ repos' = ReposAfterError(repos)
    /\ fpc' = PcAfterError
    /\ UNCHANGED <<max_repos, pageSize, page, throttles, cvars, pvars, svars>>

(***************************************************************************)
(* fetch_repos run against a backend that answers every request with 200:  *)
(* the loop of lines 36-49 alone, from list r, page cursor p and history   *)
(* log.  The result is the state at the return of line 59.                 *)
(***************************************************************************)
RECURSIVE FetchNoThrottle(_, _, _, _, _)
FetchNoThrottle(ps, m, r, p, log) ==
    IF ~LoopCond(r, m) THEN [repos |-> r, page |-> p, reqlog |-> log]
    ELSE LET new_repos == Items(ps, p)
             answered == log \o << <<"req", p>>, <<"resp", 200>> >>
         IN IF new_repos = <<>>
            THEN [repos |-> r, page |-> p, reqlog |-> answered]
            ELSE FetchNoThrottle(ps, m, Truncate(Extend(r, new_repos), m),
                                 NextPage(p), answered)

(***************************************************************************)
(* Text.  A string is a sequence of characters; " " and "\t" are the       *)
(* whitespace of the pattern, "\n" ends a line.                            *)
(***************************************************************************)
\* line 10
SCRIPT_FILE_PATTERNS ==
    << <<"*", ".", "p", "y">>, <<"*", ".", "l", "u", "a">>, <<"*", ".", "j", "s">>,
       <<"*", ".", "t", "s">>, <<"*", ".", "j", "a", "v", "a">>, <<"*", ".", "r", "b">>,
       <<"*", ".", "p", "h", "p">>, <<"*", ".", "h", "t", "m", "l">>,
       <<"*", ".", "c", "s", "s">> >>

\* str.strip(chars): drop the leading and trailing characters that are in chars
RECURSIVE LStrip(_, _)
LStrip(str, chars) ==
    IF str # <<>> /\ Head(str) \in chars THEN LStrip(Tail(str), chars) ELSE str

RECURSIVE RStrip(_, _)
RStrip(str, chars) ==
    IF str # <<>> /\ str[Len(str)] \in chars
    THEN RStrip(SubSeq(str, 1, Len(str) - 1), chars)
    ELSE str

Strip(str, chars) == RStrip(LStrip(str, chars), chars)

\* str.endswith(suffix)
EndsWith(str, suffix) ==
    /\ Len(suffix) <= Len(str)
    /\ SubSeq(str, Len(str) - Len(suffix) + 1, Len(str)) = suffix

\* line 123: the file name ends with a pattern stripped of its "*"
MatchesPatterns(file) ==
    \E k \in 1..Len(SCRIPT_FILE_PATTERNS) :
        EndsWith(file, Strip(SCRIPT_FILE_PATTERNS[k], {"*"}))

\* line 126: decoding with errors='replace' turns every undecodable byte
\* ("0xFF") into the replacement character and never fails
RECURSIVE Decode(_)
Decode(bytes) ==
    IF bytes = <<>> THEN <<>>
    ELSE <<IF Head(bytes) = "0xFF" THEN "U+FFFD" ELSE Head(bytes)>> \o Decode(Tail(bytes))

\* line 76: content.splitlines(); cur is the line being collected
RECURSIVE SplitLinesFrom(_, _)
SplitLinesFrom(content, cur) ==
    IF content = <<>> THEN (IF cur = <<>> THEN <<>> ELSE <<cur>>)
    ELSE IF Head(content) = "\n" THEN <<cur>> \o SplitLinesFrom(Tail(content), <<>>)
    ELSE SplitLinesFrom(Tail(content), Append(cur, Head(content)))

SplitLines(content) == SplitLinesFrom(content, <<>>)

\* lines 82-85: re.findall(r'[ \t]{limit,}', line) is non-empty
HasRunLonger(line, lim) ==
    \E i \in 1..(Len(line) - lim) :
        \A k \in i..(i + lim) : line[k] \in {" ", "\t"}

HasRun(line, lim) ==
    \/ lim = 0
    \/ /\ lim > 0
       /\ \E i \in 1..(Len(line) - lim + 1) :
              \A k \in i..(i + lim - 1) : line[k] \in {" ", "\t"}

\* lines 80-87: check_consecutive_whitespace, from line number i on
RECURSIVE CheckFrom(_, _, _)
CheckFrom(code_lines, lim, i) ==
    IF i > Len(code_lines) THEN <<>>
    ELSE (IF HasRun(code_lines[i], lim)
          THEN << <<i, Strip(code_lines[i], {" ", "\t"})>> >>
          ELSE <<>>) \o CheckFrom(code_lines, lim, i + 1)

check_consecutive_whitespace(code_lines, lim) == CheckFrom(code_lines, lim, 1)

\* lines 74-78
analyze_code_content(content, lim) ==
    check_consecutive_whitespace(SplitLines(content), lim)

\* line 76: code_lines = content.splitlines()
ScanSplit ==
    /\ spc = "start"
    /\ scan_lines' = SplitLines(scan_content)
    /\ spc' = "split"
    /\ UNCHANGED <<fvars, cvars, pvars, scan_content, scan_results>>

\* lines 77-78: results = check_consecutive_whitespace(code_lines, limit)
ScanCheck ==
    /\ spc = "split"
    /\ scan_results' = check_consecutive_whitespace(scan_lines, limit)
    /\ spc' = "done"
    /\ UNCHANGED <<fvars, cvars, pvars, scan_content, scan_lines>>

\* analyze_code_content is not running
ScanIdle ==
    /\ scan_content = <<>>
    /\ scan_lines = <<>>
    /\ scan_results = <<>>
    /\ spc = "idle"

(***************************************************************************)
(* The repositories.  A file has the directories leading to it, its name   *)
(* and its content; a tree lists its files in the order os.walk visits     *)
(* them.                                                                   *)
(***************************************************************************)
\* a.py holds runs of 2, 0 and 1 (two flagged lines at limit 1, one at
\* limit 2); n.txt is no script file; h.py lies in .git
TreeA ==
    << [dir |-> <<>>, name |-> <<"a", ".", "p", "y">>,
        content |-> <<"x", " ", "\t", "y", "\n", "z", "\n", "\t", "w">>],
       [dir |-> <<>>, name |-> <<"n", ".", "t", "x", "t">>,
        content |-> <<" ", " ", "n">>],
       [dir |-> <<".git">>, name |-> <<"h", ".", "p", "y">>,
        content |-> <<" ", " ", "h">>] >>

\* b.js holds no whitespace; c.py holds a run of 1 (flagged at limit 1
\* only) and a byte that is not UTF-8
TreeB ==
    << [dir |-> <<"src">>, name |-> <<"b", ".", "j", "s">>,
        content |-> <<"q", "\n", "\n">>],
       [dir |-> <<"src">>, name |-> <<"c", ".", "p", "y">>,
        content |-> <<"c", " ", "0xFF", "\n">>] >>

\* the tree behind the clone_url of the t-th repository
Tree(t) == IF t % 2 = 1 THEN TreeA ELSE TreeB

\* lines 119-120: os.walk never descends into a directory named .git
Pruned(f) == \E k \in 1..Len(f.dir) : f.dir[k] = ".git"

(***************************************************************************)
(* State shared by main and the workers.                                   *)
(***************************************************************************)
\* one process_repo call per descriptor of repos (lines 159-168)
Tasks == 1..Len(repos)

\* names tempfile may give a temporary directory: as many as directories
\* can exist at a time
TmpNames == 1..MaxWorkers

\* no directory under a name
NoDir == [exists |-> FALSE, owner |-> 0, cloned |-> FALSE, files |-> <<>>]

\* a process_repo call that has not been submitted yet (faults and unread
\* are history: the failures it met and the files it could not read)
NewTask ==
    [pc |-> "new", exc |-> "none", tmp |-> 0, fidx |-> 0, results |-> <<>>,
     ridx |-> 0, detected_file |-> -1, faults |-> <<>>, unread |-> {}]

\* the tasks a worker is running
Running == {t \in Tasks : tasks[t].pc \notin {"new", "pending", "done"}}

\* the environment fails the step being taken
Inject ==
    /\ faults < MaxFaults
    /\ faults' = faults + 1

\* line 111: tempfile picks a name no existing directory has
FreeNames(fs) == {n \in TmpNames : ~fs[n].exists}

\* line 136: an exception caught at the task boundary leaves the try block;
\* the with block of line 111 is left next
PcAfterCaughtNoCleanup == "done"

PcAfterCaught == "cleanup"

\* a process_repo call that has returned: the record of how it ended stays
Returned(task) ==
    [NewTask EXCEPT !.pc = "done", !.exc = task.exc, !.faults = task.faults,
                    !.unread = task.unread]

\* t with the exception e caught at line 136 after the failure kind
Caught(t, kind) ==
    [tasks EXCEPT ![t].pc = PcAfterCaught, ![t].exc = "caught",
                  ![t].faults = Append(@, kind)]

\* lines 114-117: after the clone comes the narrowing, when it is enabled
PcAfterClone == IF USE_SPARSE_CHECKOUT THEN "sparse" ELSE "mk_exists"

\* lines 66-72: the files a sparse checkout of the patterns keeps
KeptBySparse(f) == MatchesPatterns(f.name) \/ Pruned(f)

\* a walk that takes every file, whatever its name and directory
NextFileAny(files, i) == IF i < Len(files) THEN i + 1 ELSE 0

\* lines 118-123: the next file after index i of files that the walk scans
NextFile(files, i) ==
    LET later == {k \in (i + 1)..Len(files) :
                     ~Pruned(files[k]) /\ MatchesPatterns(files[k].name)}
    IN IF later = {} THEN 0 ELSE CHOOSE k \in later : \A j \in later : k <= j

\* lines 170-173: main after future.result() of a task that ended with exc
MainAfterResultUncaught(exc) == IF exc = "raised" THEN "crashed" ELSE "drain"

MainAfterResult(exc) == "drain"

(***************************************************************************)
(* main (lines 158-173)                                                    *)
(***************************************************************************)
\* lines 159-168: executor.submit of the next descriptor
MainSubmit ==
    /\ mpc = "submit"
    /\ \E t \in Tasks :
          /\ tasks[t].pc = "new"
          /\ \A u \in 1..(t - 1) : tasks[u].pc # "new"
          /\ tasks' = [tasks EXCEPT ![t].pc = "pending"]
          /\ queue' = Append(queue, t)
          /\ mpc' = IF t = Len(repos) THEN "drain" ELSE "submit"
    /\ UNCHANGED <<fvars, svars, cvars, collected, tmpfs, Detected, evidence,
                   file_counter, file_counter_lock, claims, faults>>

\* lines 169-173: as_completed yields a finished future; result() is taken
MainDrain(t) ==
    /\ mpc = "drain"
    /\ t \notin collected
    /\ tasks[t].pc = "done"
    /\ collected' = collected \cup {t}
    /\ mpc' = MainAfterResult(tasks[t].exc)
    /\ UNCHANGED <<fvars, svars, cvars, queue, tasks, tmpfs, Detected, evidence,
                   file_counter, file_counter_lock, claims, faults>>

\* main leaving the with block of line 158 without waiting for the futures
MainReturnEarly ==
    /\ mpc = "drain"
    /\ mpc' = "done"
    /\ UNCHANGED <<fvars, svars, cvars, queue, collected, tasks, tmpfs, Detected,
                   evidence, file_counter, file_counter_lock, claims, faults>>

\* line 173, end of the with block of line 158: every future was yielded
MainReturn ==
    /\ mpc = "drain"
    /\ collected = Tasks
    /\ mpc' = "done"
    /\ UNCHANGED <<fvars, svars, cvars, queue, collected, tasks, tmpfs, Detected,
                   evidence, file_counter, file_counter_lock, claims, faults>>

(***************************************************************************)
(* process_repo (lines 109-137)                                            *)
(***************************************************************************)
\* a free worker takes the oldest work item; lines 110-112: the temporary
\* directory is created, or tempfile raises out of process_repo
StartTask(t) ==
    /\ queue # <<>>
    /\ t = Head(queue)
    /\ Cardinality(Running) < max_workers
    /\ queue' = Tail(queue)
    /\ \/ /\ \E n \in FreeNames(tmpfs) :
               /\ tmpfs' = [tmpfs EXCEPT ![n] =
                     [exists |-> TRUE, owner |-> t, cloned |-> FALSE, files |-> <<>>]]
               /\ tasks' = [tasks EXCEPT ![t].pc = "clone", ![t].tmp = n]
          /\ UNCHANGED faults
       \/ /\ Inject
          /\ tasks' = [tasks EXCEPT ![t].pc = "done", ![t].exc = "raised",
                                    ![t].faults = Append(@, "mkdtemp")]
          /\ UNCHANGED tmpfs
    /\ UNCHANGED <<fvars, svars, cvars, mpc, collected, Detected, evidence,
                   file_counter, file_counter_lock, claims>>

\* line 114, lines 61-64 and 23-30: git clone --depth 1.  A non-zero exit
\* is swallowed by run_subprocess; any other exception reaches line 136
Clone(t) ==
    /\ tasks[t].pc = "clone"
    /\ \/ /\ tmpfs' = [tmpfs EXCEPT ![tasks[t].tmp].cloned = TRUE,
                                    ![tasks[t].tmp].files = Tree(t)]
          /\ tasks' = [tasks EXCEPT ![t].pc = PcAfterClone]
          /\ UNCHANGED faults
       \/ /\ Inject
          /\ tasks' = [tasks EXCEPT ![t].pc = PcAfterClone,
                                    ![t].faults = Append(@, "clone")]
          /\ UNCHANGED tmpfs
       \/ /\ Inject
          /\ tasks' = Caught(t, "clone_raise")
          /\ UNCHANGED tmpfs
    /\ UNCHANGED <<fvars, svars, cvars, mpc, queue, collected, Detected, evidence,
                   file_counter, file_counter_lock, claims>>

\* lines 115-116 and 66-72: write .git/info/sparse-checkout (an OSError
\* reaches line 136), then git config and git checkout (a non-zero exit is
\* swallowed by run_subprocess and leaves the working copy as it is)
Sparse(t) ==
    /\ tasks[t].pc = "sparse"
    /\ IF ~tmpfs[tasks[t].tmp].cloned
       THEN /\ tasks' = Caught(t, "sparse_nodir")
            /\ UNCHANGED <<tmpfs, faults>>
       ELSE \/ /\ tmpfs' = [tmpfs EXCEPT ![tasks[t].tmp].files =
                                SelectSeq(@, KeptBySparse)]
               /\ tasks' = [tasks EXCEPT ![t].pc = "mk_exists"]
               /\ UNCHANGED faults
            \/ /\ Inject
               /\ tasks' = [tasks EXCEPT ![t].pc = "mk_exists",
                                         ![t].faults = Append(@, "git")]
               /\ UNCHANGED tmpfs
            \/ /\ Inject
               /\ tasks' = Caught(t, "sparse_write")
               /\ UNCHANGED tmpfs
    /\ UNCHANGED <<fvars, svars, cvars, mpc, queue, collected, Detected, evidence,
                   file_counter, file_counter_lock, claims>>

\* line 90, called from line 117 (mk_exists) or line 95 (lf_exists):
\* os.path.exists('Detected')
CreateDetectedCheck(t) ==
    /\ tasks[t].pc \in {"mk_exists", "lf_exists"}
    /\ tasks' = [tasks EXCEPT ![t].pc =
          IF Detected
          THEN (IF tasks[t].pc = "mk_exists" THEN "walk" ELSE "acquire")
          ELSE (IF tasks[t].pc = "mk_exists" THEN "mk_make" ELSE "lf_make")]
    /\ UNCHANGED <<fvars, svars, cvars, mpc, queue, collected, tmpfs, Detected, evidence,
                   file_counter, file_counter_lock, claims, faults>>

\* line 91: os.makedirs('Detected') raises FileExistsError when the
\* directory exists by now; from line 117 that reaches line 136, from line
\* 95 it is an OSError caught at line 134
CreateDetectedMake(t) ==
    /\ tasks[t].pc \in {"mk_make", "lf_make"}
    /\ IF ~Detected
       THEN /\ Detected' = TRUE
            /\ tasks' = [tasks EXCEPT ![t].pc =
                  IF tasks[t].pc = "mk_make" THEN "walk" ELSE "acquire"]
       ELSE /\ UNCHANGED Detected
            /\ tasks' = IF tasks[t].pc = "mk_make"
                        THEN Caught(t, "mkdir_race")
                        ELSE [tasks EXCEPT ![t].pc = "walk",
                                           ![t].faults = Append(@, "mkdir_race")]
    /\ UNCHANGED <<fvars, svars, cvars, mpc, queue, collected, tmpfs, evidence,
                   file_counter, file_counter_lock, claims, faults>>

\* lines 118-124: os.walk moves to the next script file outside .git, or
\* ends (a clone_path that does not exist yields nothing)
Walk(t) ==
    /\ tasks[t].pc = "walk"
    /\ LET k == NextFile(tmpfs[tasks[t].tmp].files, tasks[t].fidx) IN
       tasks' = IF k = 0
                THEN [tasks EXCEPT ![t].pc = "cleanup"]
                ELSE [tasks EXCEPT ![t].pc = "open", ![t].fidx = k]
    /\ UNCHANGED <<fvars, svars, cvars, mpc, queue, collected, tmpfs, Detected, evidence,
                   file_counter, file_counter_lock, claims, faults>>

\* lines 134-135: an OSError of the read is caught inside the loop over
\* the files
PcAfterReadErrorAbandon == "cleanup"

PcAfterReadError == "walk"

\* lines 125-135: open and read the file, scan it; an OSError skips the file
ReadFile(t) ==
    /\ tasks[t].pc = "open"
    /\ \/ /\ LET f == tmpfs[tasks[t].tmp].files[tasks[t].fidx]
                 results == analyze_code_content(Decode(f.content), limit)
             IN tasks' = IF results # <<>>
                         THEN [tasks EXCEPT ![t].pc = "lf_exists",
                                            ![t].results = results, ![t].ridx = 1]
                         ELSE [tasks EXCEPT ![t].pc = "walk", ![t].results = results]
          /\ UNCHANGED faults
       \/ /\ Inject
          /\ LET f == tmpfs[tasks[t].tmp].files[tasks[t].fidx] IN
             tasks' = [tasks EXCEPT ![t].pc = PcAfterReadError,
                                    ![t].faults = Append(@, "read"),
                                    ![t].unread = @ \cup {<<f.dir, f.name>>}]
    /\ UNCHANGED <<fvars, svars, cvars, mpc, queue, collected, tmpfs, Detected, evidence,
                   file_counter, file_counter_lock, claims>>

(***************************************************************************)
(* log_findings (lines 93-107), for the finding results[ridx]              *)
(***************************************************************************)
\* line 97: with file_counter_lock (enter)
AcquireNoLock(t) ==
    /\ tasks[t].pc = "acquire"
    /\ tasks' = [tasks EXCEPT ![t].pc = "read_ctr"]
    /\ UNCHANGED <<fvars, svars, cvars, mpc, queue, collected, tmpfs, Detected, evidence,
                   file_counter, file_counter_lock, claims, faults>>

Acquire(t) ==
    /\ tasks[t].pc = "acquire"
    /\ file_counter_lock = 0
    /\ file_counter_lock' = t
    /\ tasks' = [tasks EXCEPT ![t].pc = "read_ctr"]
    /\ UNCHANGED <<fvars, svars, cvars, mpc, queue, collected, tmpfs, Detected, evidence,
                   file_counter, claims, faults>>

\* line 98: the name detected_<file_counter>.txt is formed
ReadCounter(t) ==
    /\ tasks[t].pc = "read_ctr"
    /\ tasks' = [tasks EXCEPT ![t].pc = "incr", ![t].detected_file = file_counter]
    /\ claims' = Append(claims, <<t, file_counter>>)
    /\ UNCHANGED <<fvars, svars, cvars, mpc, queue, collected, tmpfs, Detected, evidence,
                   file_counter, file_counter_lock, faults>>

\* an increment that passes over a value
NextCounterSkip(c) == c + 2

\* line 99: file_counter += 1
NextCounter(c) == c + 1

\* line 99 with the lock kept beyond the with block of line 97
IncrementNoRelease(t) ==
    /\ tasks[t].pc = "incr"
    /\ file_counter' = NextCounter(file_counter)
    /\ tasks' = [tasks EXCEPT ![t].pc = "write"]
    /\ UNCHANGED <<fvars, svars, cvars, mpc, queue, collected, tmpfs, Detected, evidence,
                   file_counter_lock, claims, faults>>

\* line 99 and the end of the with block: file_counter += 1, lock released
IncrementRelease(t) ==
    /\ tasks[t].pc = "incr"
    /\ file_counter' = NextCounter(file_counter)
    /\ file_counter_lock' = 0
    /\ tasks' = [tasks EXCEPT ![t].pc = "write"]
    /\ UNCHANGED <<fvars, svars, cvars, mpc, queue, collected, tmpfs, Detected, evidence,
                   claims, faults>>

\* line 96: the next finding of results, or back to the walk
AfterFinding(t) ==
    IF tasks[t].ridx < Len(tasks[t].results)
    THEN [tasks EXCEPT ![t].pc = "acquire", ![t].ridx = @ + 1]
    ELSE [tasks EXCEPT ![t].pc = "walk"]

\* file_counter after a failed write, had the claimed name been given back
CounterAfterWriteFailureRollback(c) == c - 1

\* lines 100-107 and 134-135: file_counter after a failed write; neither
\* open/write nor the except clause touches it
CounterAfterWriteFailure(c) == c

\* lines 100-107: the evidence file is written under the name formed at
\* line 98 (replacing a file of that name); an OSError leaves log_findings
\* and is caught at line 134
WriteEvidence(t) ==
    /\ tasks[t].pc = "write"
    /\ \/ /\ LET f == tmpfs[tasks[t].tmp].files[tasks[t].fidx]
                 finding == tasks[t].results[tasks[t].ridx]
                 record == [id |-> tasks[t].detected_file, repo |-> t,
                            dir |-> f.dir, name |-> f.name,
                            line_no |-> finding[1], code |-> finding[2]]
             IN evidence' = {e \in evidence : e.id # record.id} \cup {record}
          /\ tasks' = AfterFinding(t)
          /\ UNCHANGED <<faults, file_counter>>
       \/ /\ Inject
          /\ tasks' = [tasks EXCEPT ![t].pc = "walk",
                                    ![t].faults = Append(@, "write")]
          /\ file_counter' = CounterAfterWriteFailure(file_counter)
          /\ UNCHANGED evidence
    /\ UNCHANGED <<fvars, svars, cvars, mpc, queue, collected, tmpfs, Detected,
                   file_counter_lock, claims>>

\* end of the with block of line 111: the temporary directory is removed,
\* and process_repo returns (its locals are gone)
Cleanup(t) ==
    /\ tasks[t].pc = "cleanup"
    /\ tmpfs' = [tmpfs EXCEPT ![tasks[t].tmp] = NoDir]
    /\ tasks' = [tasks EXCEPT ![t] = Returned(tasks[t])]
    /\ UNCHANGED <<fvars, svars, cvars, mpc, queue, collected, Detected, evidence,
                   file_counter, file_counter_lock, claims, faults>>

(***************************************************************************)
(* Specifications.                                                         *)
(***************************************************************************)
\* main has read its configuration and has not reached the pool
PoolIdle ==
    /\ USE_SPARSE_CHECKOUT = FALSE
    /\ limit = 1
    /\ max_workers = 1
    /\ mpc = "fetch"
    /\ queue = <<>>
    /\ collected = {}
    /\ tasks = <<>>
    /\ tmpfs = [n \in TmpNames |-> NoDir]
    /\ Detected = FALSE
    /\ evidence = {}
    /\ file_counter = 0
    /\ file_counter_lock = 0
    /\ claims = <<>>
    /\ faults = 0

\* fetch_repos is entered (lines 33-35)
InitFetch ==
    /\ max_repos \in -1..MaxM
    /\ pageSize \in [1..NumPages -> 0..MaxPerPage]
    /\ fpc = "loop"
    /\ repos = <<>>
    /\ page = 1
    /\ throttles = 0
    /\ reqlog = <<>>
    /\ PoolIdle
    /\ ScanIdle

NextFetch ==
    \/ FetchLoop
    \/ Fetch200
    \/ Fetch403
    \/ FetchSleep
    \/ FetchError

SpecFetch == InitFetch /\ [][NextFetch]_vars

\* every request is answered and every sleep ends: an enabled step of
\* fetch_repos is eventually taken; the backend throttles at most
\* MaxThrottle times
SpecFetchLive == SpecFetch /\ WF_vars(NextFetch)

\* the call fetch_repos(query, NumRepos) of line 153 against a backend of
\* full pages that answered every request with 200
Fetched ==
    FetchNoThrottle([p \in 1..NumPages |-> MaxPerPage], NumRepos, <<>>, 1, <<>>)

\* fetch_repos has returned; main enters the with block of line 158
\* (globals as set at lines 16-17 and 144-155)
Init ==
    /\ max_repos = NumRepos
    /\ pageSize = [p \in 1..NumPages |-> MaxPerPage]
    /\ fpc = "done"
    /\ repos = Fetched.repos
    /\ page = Fetched.page
    /\ throttles = 0
    /\ reqlog = Fetched.reqlog
    /\ USE_SPARSE_CHECKOUT \in BOOLEAN
    /\ limit \in 1..MaxLimit
    /\ max_workers \in 1..MaxWorkers
    /\ mpc = "submit"
    /\ queue = <<>>
    /\ collected = {}
    /\ tasks = [t \in 1..Len(Fetched.repos) |-> NewTask]
    /\ tmpfs = [n \in TmpNames |-> NoDir]
    /\ Detected = FALSE
    /\ evidence = {}
    /\ file_counter = 0
    /\ file_counter_lock = 0
    /\ claims = <<>>
    /\ faults = 0
    /\ ScanIdle

Next ==
    \/ MainSubmit
    \/ MainReturn
    \/ \E t \in Tasks : MainDrain(t)
    \/ \E t \in Tasks : StartTask(t)
    \/ \E t \in Tasks : Clone(t)
    \/ \E t \in Tasks : Sparse(t)
    \/ \E t \in Tasks : CreateDetectedCheck(t)
    \/ \E t \in Tasks : CreateDetectedMake(t)
    \/ \E t \in Tasks : Walk(t)
    \/ \E t \in Tasks : ReadFile(t)
    \/ \E t \in Tasks : Acquire(t)
    \/ \E t \in Tasks : ReadCounter(t)
    \/ \E t \in Tasks : IncrementRelease(t)
    \/ \E t \in Tasks : WriteEvidence(t)
    \/ \E t \in Tasks : Cleanup(t)

Spec == Init /\ [][Next]_vars

\* every blocking call returns and the pool keeps scheduling: some enabled
\* step of main or of a worker is eventually taken
\* the call fetch_repos(query, LiveRepos) of line 153 against the same backend
FetchedLive ==
    FetchNoThrottle([p \in 1..NumPages |-> MaxPerPage], LiveRepos, <<>>, 1, <<>>)

\* the same entry into the with block of line 158, with LiveRepos repositories
InitLive ==
    /\ max_repos = LiveRepos
    /\ pageSize = [p \in 1..NumPages |-> MaxPerPage]
    /\ fpc = "done"
    /\ repos = FetchedLive.repos
    /\ page = FetchedLive.page
    /\ throttles = 0
    /\ reqlog = FetchedLive.reqlog
    /\ USE_SPARSE_CHECKOUT \in BOOLEAN
    /\ limit \in 1..MaxLimit
    /\ max_workers \in 1..MaxWorkers
    /\ mpc = "submit"
    /\ queue = <<>>
    /\ collected = {}
    /\ tasks = [t \in 1..Len(FetchedLive.repos) |-> NewTask]
    /\ tmpfs = [n \in TmpNames |-> NoDir]
    /\ Detected = FALSE
    /\ evidence = {}
    /\ file_counter = 0
    /\ file_counter_lock = 0
    /\ claims = <<>>
    /\ faults = 0
    /\ ScanIdle

SpecLive == InitLive /\ [][Next]_vars /\ WF_vars(Next)

\* the fetch state before fetch_repos is called
FetchIdle ==
    /\ max_repos = 0
    /\ pageSize = [p \in 1..NumPages |-> 0]
    /\ fpc = "idle"
    /\ repos = <<>>
    /\ page = 1
    /\ throttles = 0
    /\ reqlog = <<>>

\* the texts of at most MaxContent characters
Texts == UNION {[1..n -> {" ", "\t", "x", "\n"}] : n \in 0..MaxContent}

\* analyze_code_content(scan_content, limit) is entered (lines 74-75)
InitScan ==
    /\ FetchIdle
    /\ USE_SPARSE_CHECKOUT = FALSE
    /\ max_workers = 1
    /\ mpc = "fetch"
    /\ queue = <<>>
    /\ collected = {}
    /\ tasks = <<>>
    /\ tmpfs = [n \in TmpNames |-> NoDir]
    /\ Detected = FALSE
    /\ evidence = {}
    /\ file_counter = 0
    /\ file_counter_lock = 0
    /\ claims = <<>>
    /\ faults = 0
    /\ limit \in 0..(MaxLimit + 1)
    /\ scan_content \in Texts
    /\ scan_lines = <<>>
    /\ scan_results = <<>>
    /\ spc = "start"

NextScan ==
    \/ ScanSplit
    \/ ScanCheck

SpecScan == InitScan /\ [][NextScan]_vars

(***************************************************************************)
(* Properties of fetch_repos.                                              *)
(***************************************************************************)
\* the items the backend offers: its pages in page order, up to the first
\* empty page (the end-of-results signal)
RECURSIVE AvailableFrom(_, _)
AvailableFrom(ps, p) ==
    IF Items(ps, p) = <<>> THEN <<>> ELSE Items(ps, p) \o AvailableFrom(ps, p + 1)

Available == AvailableFrom(pageSize, 1)

\* the backend answered some request with an error status
Errored == \E i \in 1..Len(reqlog) : reqlog[i] = <<"resp", 500>>

\* the backend answered some request with a 403
Throttled == \E i \in 1..Len(reqlog) : reqlog[i] = <<"resp", 403>>

\* the items of the requests of the log that were answered with 200, in order
RECURSIVE ItemsOf200(_, _)
ItemsOf200(log, i) ==
    IF i >= Len(log) THEN <<>>
    ELSE IF log[i][1] = "req" /\ log[i + 1] = <<"resp", 200>>
         THEN Items(pageSize, log[i][2]) \o ItemsOf200(log, i + 1)
         ELSE ItemsOf200(log, i + 1)

\* C2: fetch_repos(q, m) with m >= 1 never returns more than m descriptors,
\* whatever the backend answers; when the backend never throttles and never
\* errors it returns exactly the first min(m, available) items of the pages
\* concatenated in page order.
C2_PaginationBound ==
    (fpc = "done" /\ max_repos >= 1) =>
        /\ Len(repos) <= max_repos
        /\ (~Throttled /\ ~Errored) =>
              /\ Len(repos) = Min(max_repos, Len(Available))
              /\ repos = SubSeq(Available, 1, Min(max_repos, Len(Available)))

\* C2 witness: a clean run returned after its last page overshot max_repos
C2_Witness ==
    /\ fpc = "done" /\ max_repos >= 1
    /\ ~Throttled /\ ~Errored
    /\ Len(ItemsOf200(reqlog, 1)) > max_repos
    /\ Len(repos) = max_repos
    /\ page = 3

\* C3: a run in which the backend throttled some requests and answered the
\* retries returns the same list as a run against the same pages without
\* any throttling.
C3_ThrottleRecovery ==
    (fpc = "done" /\ Throttled /\ ~Errored) =>
        repos = FetchNoThrottle(pageSize, max_repos, <<>>, 1, <<>>).repos

\* C3 witness: the first request for page 2 was throttled, the retry
\* succeeded, and the run returned the items of pages 1 and 2
C3_Witness ==
    /\ fpc = "done" /\ ~Errored
    /\ \E i \in 2..Len(reqlog) :
          /\ reqlog[i] = <<"resp", 403>>
          /\ reqlog[i - 1] = <<"req", 2>>
          /\ \A j \in 1..(i - 1) : reqlog[j] # <<"resp", 403>>
    /\ Len(repos) >= 3

\* the log around every 403: a sleep follows it, and the request after the
\* sleep is the request that was throttled
LogAfter403 ==
    \A i \in 2..Len(reqlog) :
        reqlog[i] = <<"resp", 403>> =>
            /\ fpc # "done" \/ i < Len(reqlog)
            /\ (i + 1 <= Len(reqlog)) => reqlog[i + 1] = <<"sleep", 30>>
            /\ (i + 2 <= Len(reqlog)) => reqlog[i + 2] = reqlog[i - 1]

\* no two requests follow each other in the log without a response, and no
\* request follows a 403 directly
NoSpin ==
    \A i \in 1..(Len(reqlog) - 1) :
        reqlog[i + 1][1] = "req" => reqlog[i] \in {<<"resp", 200>>, <<"sleep", 30>>}

\* C7: on a 403 for page p fetch_repos does not return, keeps the page
\* cursor and the accumulated list, sleeps, and then requests page p again.
C7_ThrottleRetry ==
    /\ [](LogAfter403 /\ NoSpin)
    /\ [][(reqlog' = Append(reqlog, <<"resp", 403>>)) =>
             (repos' = repos /\ page' = page /\ fpc' = "sleep")]_vars

\* C7 witness: page 2 was throttled while the list was non-empty, and the
\* request was issued again after the sleep
C7_Witness ==
    \E i \in 2..Len(reqlog) :
        /\ reqlog[i] = <<"resp", 403>>
        /\ reqlog[i - 1] = <<"req", 2>>
        /\ i + 2 <= Len(reqlog)
        /\ reqlog[i + 2] = <<"req", 2>>
        /\ repos # <<>>

\* C8: after an error status fetch_repos has returned, the error is the
\* last event of the log (no further request), and the list returned is
\* the items of the pages fetched with a 200 before it, in order.
C8_ErrorReturnsPartial ==
    Errored =>
        /\ fpc = "done"
        /\ reqlog[Len(reqlog)] = <<"resp", 500>>
        /\ \A i \in 1..(Len(reqlog) - 1) : reqlog[i] # <<"resp", 500>>
        /\ repos = ItemsOf200(reqlog, 1)

\* C8 witness: the error came on page 2, after page 1 was fetched
C8_Witness ==
    /\ Errored
    /\ fpc = "done"
    /\ reqlog[Len(reqlog) - 1] = <<"req", 2>>
    /\ repos # <<>>
    /\ Len(repos) < max_repos

(***************************************************************************)
(* Properties of the worker pool.                                          *)
(***************************************************************************)
\* the findings of the k-th file of the t-th repository
FindingsOfFile(t, k) ==
    LET f == Tree(t)[k]
        res == analyze_code_content(Decode(f.content), limit)
    IN {[repo |-> t, dir |-> f.dir, name |-> f.name,
         line_no |-> res[i][1], code |-> res[i][2]] : i \in 1..Len(res)}

\* the findings a complete scan of the t-th repository records: every
\* flagged line of every script file outside .git
Expected(t) ==
    UNION {FindingsOfFile(t, k) :
             k \in {k \in 1..Len(Tree(t)) :
                      ~Pruned(Tree(t)[k]) /\ MatchesPatterns(Tree(t)[k].name)}}

\* the script files outside .git of the t-th repository, by index
Scanned(t) ==
    {k \in 1..Len(Tree(t)) : ~Pruned(Tree(t)[k]) /\ MatchesPatterns(Tree(t)[k].name)}

\* the findings of the t-th repository that have an evidence file
EvidenceOf(t) ==
    {[repo |-> e.repo, dir |-> e.dir, name |-> e.name,
      line_no |-> e.line_no, code |-> e.code] : e \in {x \in evidence : x.repo = t}}

\* task t is inside log_findings
Recording(t) == tasks[t].pc \in {"acquire", "read_ctr", "incr", "write"}

\* every failure task t met is of one of the kinds
OnlyFaults(t, kinds) ==
    \A i \in 1..Len(tasks[t].faults) : tasks[t].faults[i] \in kinds

\* C1: the identifiers read from file_counter are pairwise distinct, in
\* every interleaving of the workers.
C1_IdsDistinct ==
    \A i, j \in 1..Len(claims) : i # j => claims[i][2] # claims[j][2]

\* C1 witness: two workers are inside log_findings at once, one waiting for
\* the lock the other holds, after ids went to two tasks
C1_Witness ==
    /\ Len(claims) >= 3
    /\ \E i, j \in 1..Len(claims) : claims[i][1] # claims[j][1]
    /\ \E t, u \in Tasks :
          /\ t # u
          /\ tasks[t].pc = "acquire"
          /\ file_counter_lock = u
          /\ tasks[u].pc = "incr"

\* C4: a failure inside one task never stops main and never cancels a
\* task: when main returns every task has returned, and every task that
\* returned without a failure of its own has all its evidence records.
C4_FaultIsolation ==
    /\ mpc # "crashed"
    /\ mpc = "done" => \A t \in Tasks : tasks[t].pc = "done"
    /\ \A t \in Tasks :
          (tasks[t].pc = "done" /\ tasks[t].faults = <<>>) =>
              EvidenceOf(t) = Expected(t)

\* C4 witness: of three tasks the second failed its clone; the first and
\* the third recorded their findings and main returned
C4_Witness ==
    /\ mpc = "done"
    /\ Len(repos) >= 3
    /\ tasks[2].faults \in {<<"clone">>, <<"clone_raise">>}
    /\ EvidenceOf(2) = {}
    /\ EvidenceOf(1) = Expected(1) /\ Expected(1) # {}
    /\ EvidenceOf(3) = Expected(3) /\ Expected(3) # {}

\* C5: creating Detected is safe to race: no makedirs call ever finds the
\* directory created since its check, so no task is abandoned for it.
C5_DetectedRaceSafe ==
    \A t \in Tasks : OnlyFaults(t, {"mkdtemp", "clone", "clone_raise", "sparse_nodir",
                                    "git", "sparse_write", "read", "write"})

\* C6: a failed evidence write loses that one finding only: a task whose
\* only failures are evidence writes has an evidence file for every other
\* finding.
C6_WriteFailureIsolated ==
    \A t \in Tasks :
        (tasks[t].pc = "done" /\ OnlyFaults(t, {"write"})) =>
            Cardinality(EvidenceOf(t)) >= Cardinality(Expected(t)) - Len(tasks[t].faults)

\* C9: a task that has returned has no temporary directory left, on every
\* exit path; the directory a task works in is its own and no other task's.
C9_TempDirReleased ==
    /\ \A t \in Tasks :
          tasks[t].pc = "done" =>
              /\ tasks[t].tmp = 0
              /\ \A n \in TmpNames : ~(tmpfs[n].exists /\ tmpfs[n].owner = t)
    /\ \A t \in Tasks :
          tasks[t].tmp # 0 =>
              /\ tmpfs[tasks[t].tmp].exists
              /\ tmpfs[tasks[t].tmp].owner = t
    /\ \A t, u \in Tasks :
          (t # u /\ tasks[t].tmp # 0) => tasks[t].tmp # tasks[u].tmp

\* C9 witness: one task returned after an exception caught at line 136,
\* one after a skipped file, one normally with evidence; no directory is
\* left, while two tasks had run at the same time
C9_Witness ==
    /\ \E t, u \in Tasks :
          /\ t # u
          /\ tasks[t].pc = "done" /\ tasks[t].exc = "caught"
          /\ tasks[u].pc = "done" /\ tasks[u].exc = "none" /\ EvidenceOf(u) # {}
    /\ \A t \in Tasks : tasks[t].pc = "done"
    /\ \A n \in TmpNames : ~tmpfs[n].exists
    /\ max_workers >= 2

\* C10: with narrowing enabled, a task whose only failures are in the
\* narrowing step (a git command, or the write of the sparse-checkout file)
\* still records every finding, as with narrowing disabled.
C10_NarrowingBestEffort ==
    \A t \in Tasks :
        (/\ tasks[t].pc = "done"
         /\ USE_SPARSE_CHECKOUT
         /\ tasks[t].faults # <<>>
         /\ OnlyFaults(t, {"git", "sparse_write"})) =>
            EvidenceOf(t) = Expected(t)

\* C11: a file whose read fails is skipped and nothing else is: a task whose
\* only failures are reads has an evidence file for every finding of every
\* other script file, the files holding undecodable bytes included.
C11_ReadFailureSkipsFile ==
    \A t \in Tasks :
        (tasks[t].pc = "done" /\ OnlyFaults(t, {"read"})) =>
            EvidenceOf(t) =
                UNION {FindingsOfFile(t, k) :
                         k \in {j \in Scanned(t) :
                                  <<Tree(t)[j].dir, Tree(t)[j].name>> \notin tasks[t].unread}}

\* C11 witness: the read of b.js failed; c.py, which comes after it and
\* holds an undecodable byte, has its finding recorded with the
\* replacement character
C11_Witness ==
    \E t \in Tasks :
        /\ tasks[t].pc = "done"
        /\ tasks[t].faults = <<"read">>
        /\ tasks[t].unread = {<< <<"src">>, <<"b", ".", "j", "s">> >>}
        /\ \E e \in EvidenceOf(t) :
              /\ e.name = <<"c", ".", "p", "y">>
              /\ e.code = <<"c", " ", "U+FFFD">>

\* task t met a failure of git clone (a non-zero exit, or an exception)
CloneFailed(t) ==
    \E i \in 1..Len(tasks[t].faults) : tasks[t].faults[i] \in {"clone", "clone_raise"}

\* C12: a task whose clone failed is abandoned: it goes on to no step of
\* lines 115-135 (narrowing, output directory, walk, scan, record) and has
\* no evidence record.
C12_CloneFailureAbandons ==
    \A t \in Tasks :
        CloneFailed(t) =>
            /\ tasks[t].pc \in {"cleanup", "done"}
            /\ EvidenceOf(t) = {}


(***************************************************************************)
(* Properties of analyze_code_content.                                     *)
(***************************************************************************)

RECURSIVE LongestRunFrom(_, _, _, _)
\* the longest run of consecutive spaces and tabs in line[i..], given the
\* run of length cur that ends just before i and the longest so far
LongestRunFrom(line, i, cur, best) ==
    IF i > Len(line) THEN best
    ELSE IF line[i] \in {" ", "\t"}
         THEN LongestRunFrom(line, i + 1, cur + 1,
                             IF cur + 1 > best THEN cur + 1 ELSE best)
         ELSE LongestRunFrom(line, i + 1, 0, best)

LongestRun(line) == LongestRunFrom(line, 1, 0, 0)

\* C13: for a threshold t >= 1 the scanner flags a line exactly when its
\* longest run of consecutive spaces and tabs is at least t; each flagged
\* line appears once, under its 1-based line number, in ascending order.
C13_FlagsIffRunReachesLimit ==
    (spc = "done" /\ limit >= 1) =>
        /\ \A i \in 1..Len(scan_lines) :
              (\E k \in 1..Len(scan_results) : scan_results[k][1] = i)
                  <=> LongestRun(scan_lines[i]) >= limit
        /\ \A k \in 1..Len(scan_results) : scan_results[k][1] \in 1..Len(scan_lines)
        /\ \A k, l \in 1..Len(scan_results) : k < l => scan_results[k][1] < scan_results[l][1]

\* a three-line text whose second line alone falls short of the threshold 1
C13_Witness ==
    /\ spc = "done"
    /\ limit = 1
    /\ Len(scan_lines) = 3
    /\ LongestRun(scan_lines[2]) = 0
    /\ Len(scan_results) = 2
    /\ scan_results[1][1] = 1
    /\ scan_results[2][1] = 3

(***************************************************************************)
(* Properties of main and of the pool, continued.                          *)
(***************************************************************************)

\* C14: main never leaves the worker pool while a submitted task is pending
\* or running, and when every blocking call returns and workers are
\* scheduled fairly every task becomes terminal and main returns, whatever
\* tasks failed.
C14_MainCompletesWhenAllTerminal ==
    /\ [](mpc = "done" => \A t \in Tasks : tasks[t].pc = "done")
    /\ <>(mpc = "done")

\* main has returned after a task ended with an exception
C14_Witness ==
    /\ mpc = "done"
    /\ collected = Tasks
    /\ \E t \in Tasks : tasks[t].exc = "raised"
    /\ \E t \in Tasks : tasks[t].exc = "none" /\ EvidenceOf(t) # {}

\* C15: identifiers are strictly increasing in the order of the claims (the
\* locked read-and-increment of file_counter), and file_counter never
\* decreases, not even after a failed evidence write; evidence files may be
\* written in another order than they were claimed.
C15_ClaimsIncrease ==
    /\ [](\A i, j \in 1..Len(claims) : i < j => claims[i][2] < claims[j][2])
    /\ [][file_counter' >= file_counter]_vars

\* a later claim's file is written while an earlier claim's file is not yet,
\* after a write has failed
C15_Witness ==
    /\ \E t \in Tasks :
          /\ tasks[t].pc = "write"
          /\ \E e \in evidence : e.id > tasks[t].detected_file
    /\ \E t \in Tasks : \E i \in 1..Len(tasks[t].faults) : tasks[t].faults[i] = "write"
    /\ file_counter >= 3

\* the workers inside the with block of line 97
InCritical == {t \in Tasks : tasks[t].pc \in {"read_ctr", "incr"}}

\* C16: file_counter_lock is held exactly by a worker that is at the
\* read-and-increment of file_counter: at most one worker is there, no
\* worker holds the lock while it opens or writes an evidence file or on any
\* other path, and nothing holds it once main has returned.
C16_LockOnlyAroundClaim ==
    /\ \A t \in Tasks : file_counter_lock = t <=> t \in InCritical
    /\ Cardinality(InCritical) <= 1
    /\ file_counter_lock \in Tasks \cup {0}
    /\ mpc = "done" => file_counter_lock = 0

\* two workers are at their evidence writes at once, and the lock is free
C16_Witness ==
    /\ file_counter_lock = 0
    /\ \E t, u \in Tasks :
          /\ t # u
          /\ tasks[t].pc = "write"
          /\ tasks[u].pc = "write"

(***************************************************************************)
(* Properties of fetch_repos, continued.                                   *)
(***************************************************************************)

\* the step issues a request
IssuesRequest ==
    /\ Len(reqlog') = Len(reqlog) + 1
    /\ reqlog'[Len(reqlog')][1] = "req"

\* the log holds one request at a time, the first one for page 1, and no
\* entry after a 200 response with empty items
OneAtATime ==
    /\ reqlog # <<>> => reqlog[1] = <<"req", 1>>
    /\ \A i \in 1..Len(reqlog) :
          /\ (reqlog[i][1] = "req" /\ i > 1) => reqlog[i - 1][1] \in {"resp", "sleep"}
          /\ (reqlog[i][1] = "req" /\ i < Len(reqlog)) => reqlog[i + 1][1] = "resp"
          /\ reqlog[i][1] = "resp" => (i > 1 /\ reqlog[i - 1][1] = "req")
          /\ (reqlog[i] = <<"resp", 200>> /\ Items(pageSize, reqlog[i - 1][2]) = <<>>)
                 => (i = Len(reqlog) /\ fpc = "done")

\* C17: fetch_repos issues one request at a time starting at page 1; the
\* page cursor advances by exactly one and only on a 200 response with
\* non-empty items for the current page; no request is issued once
\* max_repos descriptors are collected, and none after a 200 response with
\* empty items.
C17_CursorDiscipline ==
    /\ []OneAtATime
    /\ [][page' # page =>
             /\ page' = page + 1
             /\ reqlog[Len(reqlog)] = <<"req", page>>
             /\ reqlog' = Append(reqlog, <<"resp", 200>>)
             /\ Items(pageSize, page) # <<>>]_vars
    /\ [][IssuesRequest =>
             /\ Len(repos) < max_repos
             /\ reqlog'[Len(reqlog')] = <<"req", page>>]_vars

\* a run that was throttled, went on to page 2 and further, and ended on a
\* page without items before max_repos descriptors were collected
C17_Witness ==
    /\ fpc = "done"
    /\ Throttled
    /\ page >= 3
    /\ reqlog[Len(reqlog)] = <<"resp", 200>>
    /\ Items(pageSize, page) = <<>>
    /\ Len(repos) < max_repos

(***************************************************************************)
(* Properties of the worker pool, continued.                               *)
(***************************************************************************)

\* the numbers of the lines of file f whose longest run of spaces and tabs
\* reaches limit
FlaggedLines(f) ==
    LET lines == SplitLines(Decode(f.content))
    IN {i \in 1..Len(lines) : LongestRun(lines[i]) >= limit}

\* the evidence files written for the k-th file of the t-th repository
EvidenceOfFile(t, k) ==
    {e \in evidence : e.repo = t /\ e.dir = Tree(t)[k].dir /\ e.name = Tree(t)[k].name}

\* C18: when no step fails, after the run every script file outside .git
\* has exactly one evidence file per flagged line, no other file has any,
\* and so the number of evidence files is the total number of flagged lines
\* of those files.
C18_OneEvidencePerFinding ==
    (mpc = "done" /\ \A t \in Tasks : tasks[t].faults = <<>>) =>
        /\ \A t \in Tasks : \A k \in 1..Len(Tree(t)) :
              IF ~Pruned(Tree(t)[k]) /\ MatchesPatterns(Tree(t)[k].name)
              THEN /\ {e.line_no : e \in EvidenceOfFile(t, k)} = FlaggedLines(Tree(t)[k])
                   /\ Cardinality(EvidenceOfFile(t, k)) =
                          Cardinality(FlaggedLines(Tree(t)[k]))
              ELSE EvidenceOfFile(t, k) = {}
        /\ \A e \in evidence :
              /\ e.repo \in Tasks
              /\ \E k \in 1..Len(Tree(e.repo)) : e \in EvidenceOfFile(e.repo, k)

\* a run without failures ended with five evidence files: two for each
\* a.py and one for c.py
C18_Witness ==
    /\ mpc = "done"
    /\ \A t \in Tasks : tasks[t].faults = <<>>
    /\ limit = 1
    /\ Cardinality(evidence) = 5
    /\ \E e \in evidence : e.name = <<"c", ".", "p", "y">>

\* the claims under way: a worker has read file_counter under the lock and
\* has not incremented it yet
ClaimsUnderWay == {t \in Tasks : tasks[t].pc = "incr"}

\* the identifiers claimed so far: those of the completed read-and-increments
ClaimedIds ==
    {claims[i][2] : i \in {j \in 1..Len(claims) :
                              ~(claims[j][1] \in ClaimsUnderWay
                                /\ claims[j][2] = tasks[claims[j][1]].detected_file
                                /\ j = Len(claims))}}

\* C19: file_counter equals the number of identifiers claimed so far, and
\* these are exactly 0 .. file_counter - 1: identifiers start at 0 and no
\* value is skipped, under any interleaving of workers.  A claim under way
\* holds the value file_counter and is the last one begun.
C19_CounterCountsClaims ==
    /\ file_counter = Cardinality(ClaimedIds)
    /\ ClaimedIds = 0..(file_counter - 1)
    /\ Len(claims) = file_counter + Cardinality(ClaimsUnderWay)
    /\ \A t \in ClaimsUnderWay :
          /\ tasks[t].detected_file = file_counter
          /\ claims[Len(claims)] = <<t, file_counter>>

\* three identifiers went to workers of two repositories, and a fourth
\* claim is under way
C19_Witness ==
    /\ file_counter = 3
    /\ ClaimsUnderWay # {}
    /\ \E i, j \in 1..Len(claims) : claims[i][1] # claims[j][1]
    /\ ClaimedIds = {0, 1, 2}

(***************************************************************************)
(* Termination of fetch_repos.                                             *)
(***************************************************************************)

\* the status of the latest response in the log, 0 when there is none
LastStatus ==
    LET resps == {i \in 1..Len(reqlog) : reqlog[i][1] = "resp"}
    IN IF resps = {} THEN 0
       ELSE reqlog[CHOOSE i \in resps : \A j \in resps : j <= i][2]

\* C20: fetch_repos returns whenever the backend throttles only finitely
\* often; for max_repos <= 0 it returns the empty list without a request;
\* and it has no retry ceiling: however many 403 answers came before, it
\* does not return while the latest answer is a 403.
C20_TerminatesUnlessThrottledForever ==
    /\ <>(fpc = "done")
    /\ []((fpc = "done" /\ max_repos <= 0) => (reqlog = <<>> /\ repos = <<>>))
    /\ [](LastStatus = 403 => fpc # "done")

\* a call returned descriptors after the backend throttled one page
\* MaxThrottle times in a row
C20_Witness ==
    /\ fpc = "done"
    /\ throttles = MaxThrottle
    /\ Len(repos) >= 1
    /\ \E i \in 1..(Len(reqlog) - 4) :
          /\ reqlog[i] = <<"req", 2>>
          /\ reqlog[i + 1] = <<"resp", 403>>
          /\ reqlog[i + 3] = <<"req", 2>>
          /\ reqlog[i + 4] = <<"resp", 403>>

====
